---------------------------- MODULE Spec2Model ----------------------------
(***************************************************************************)
(* A model of the seed_everything package: the seed validator (utils.py),  *)
(* the rank resolver, the distributed seed deriver and the worker-init     *)
(* factory (distributed.py), the per-subsystem seeders (python_seeds.py,   *)
(* numpy_seeds.py, torch_seeds.py, tensorflow_seeds.py, jax_seeds.py,      *)
(* sklearn_seeds.py) and seed_everything (core.py).                        *)
(*                                                                         *)
(* Python values are records [kind, val]: kind is the runtime type name    *)
(* and val the number the value denotes.  The seed range of the program is *)
(* [0, 2^32 - 1]; the model keeps the arithmetic and scales the width to   *)
(* SeedBits bits, so that every boundary of the range is enumerated.       *)
(***************************************************************************)
EXTENDS Integers, Sequences, FiniteSets, TLC

VARIABLES
    installed,   \* the modules that import in this process: "torch", "numpy",
                 \* "tensorflow", "jax", "horovod" (horovod.torch), "deepspeed",
                 \* and "cuda" when torch.cuda.is_available()
    environ,     \* os.environ: variable name -> sequence of characters, or Absent
    dist,        \* torch.distributed: [available, initialized, rank]
    hvd,         \* horovod.torch: [initialized, rank]
    ds,          \* deepspeed: [has_comm, initialized, rank]
    py_rng,      \* seed last given to random.seed, or None
    np_rng,      \* seed last given to numpy.random.seed, or None
    torch_rng,   \* seed last given to torch.manual_seed, or None
    callbacks,   \* base seeds captured by the closures get_worker_init_fn returned
    sys,         \* TensorFlow's and CUDA's seeds and the determinism switches of
                 \* PyTorch and TensorFlow
    draws,       \* per RNG, the numbers drawn since it was last seeded
    estimator,   \* the object given to seed_sklearn_estimator
    fan,         \* the per-subsystem seeders a caller still has to run, and the
                 \* process as it was when the caller began
    ret,         \* the most recent call: operation, arguments, outcome
    prev         \* the call before the most recent one

vars == <<installed, environ, dist, hvd, ds, py_rng, np_rng, torch_rng,
          callbacks, sys, draws, estimator, fan, ret, prev>>

-----------------------------------------------------------------------------
(* Bounds of the model *)

\* width of a seed in bits (the program's is 32)
SeedBits == 3

\* number of closures get_worker_init_fn is asked for
MaxCallbacks == 2

\* largest worker_id a data loader passes
MaxWorkerId == 2

\* largest rank a distributed runtime reports
MaxRuntimeRank == 1

\* the numbers a caller draws from an RNG between two seedings
MaxDraws == 1

\* the estimator objects a caller builds
MaxEstimators == 2

-----------------------------------------------------------------------------
(* Python values *)

PyInt(n) == [kind |-> "int", val |-> n]

PyBool(b) == [kind |-> "bool", val |-> IF b THEN 1 ELSE 0]

PyFloat(n) == [kind |-> "float", val |-> n]

PyStr(n) == [kind |-> "str", val |-> n]

None == [kind |-> "NoneType", val |-> 0]

Absent == <<"absent">>

\* isinstance(x, int): bool is a subclass of int
IsInstanceInt(x) == x.kind \in {"int", "bool"}

-----------------------------------------------------------------------------
(* utils.py *)

\* max_seed = 2**32 - 1, at the model's width
max_seed == 2^SeedBits - 1

validate_seed_strict_upper(seed) ==
    IF ~IsInstanceInt(seed) THEN "TypeError"
    ELSE IF seed.val < 0 THEN "ValueError"
    ELSE IF seed.val >= max_seed THEN "ValueError"
    ELSE "ok"

\* validate_seed: "ok" when it returns, else the class of the exception raised
validate_seed(seed) ==
    IF ~IsInstanceInt(seed) THEN "TypeError"
    ELSE IF seed.val < 0 THEN "ValueError"
    ELSE IF seed.val > max_seed THEN "ValueError"
    ELSE "ok"

-----------------------------------------------------------------------------
(* int(str): the conversion get_rank applies to an environment variable *)

Digits == <<"0", "1", "2", "3", "4", "5", "6", "7", "8", "9">>

IsDigit(c) == \E i \in 1..Len(Digits) : Digits[i] = c

DigitVal(c) == (CHOOSE i \in 1..Len(Digits) : Digits[i] = c) - 1

IsSpace(c) == c \in {" ", "\t", "\n"}

RECURSIVE LStrip(_)
LStrip(s) == IF s # <<>> /\ IsSpace(Head(s)) THEN LStrip(Tail(s)) ELSE s

RECURSIVE RStrip(_)
RStrip(s) ==
    IF s # <<>> /\ IsSpace(s[Len(s)]) THEN RStrip(SubSeq(s, 1, Len(s) - 1)) ELSE s

Strip(s) == RStrip(LStrip(s))

AllDigits(s) == s # <<>> /\ \A i \in 1..Len(s) : IsDigit(s[i])

RECURSIVE DigitsValue(_)
DigitsValue(s) ==
    IF s = <<>> THEN 0
    ELSE 10 * DigitsValue(SubSeq(s, 1, Len(s) - 1)) + DigitVal(s[Len(s)])

\* int(s) raises ValueError unless s is, after stripping whitespace, an optional
\* sign followed by decimal digits
IntParses(s) ==
    LET t == Strip(s)
        body == IF t # <<>> /\ Head(t) \in {"+", "-"} THEN Tail(t) ELSE t
    IN AllDigits(body)

IntOf(s) ==
    LET t == Strip(s)
        negative == t # <<>> /\ Head(t) = "-"
        body == IF t # <<>> /\ Head(t) \in {"+", "-"} THEN Tail(t) ELSE t
    IN IF negative THEN 0 - DigitsValue(body) ELSE DigitsValue(body)

-----------------------------------------------------------------------------
(* distributed.py: get_rank *)

\* TORCH_AVAILABLE, set when distributed.py is imported
TORCH_AVAILABLE == "torch" \in installed

\* the variables get_rank reads, in the order of its loop
RankVars == <<"RANK", "LOCAL_RANK", "SLURM_PROCID", "PMI_RANK">>

\* the exception classes a probed runtime may raise
Exceptions == {"RuntimeError", "ValueError", "AttributeError", "OSError"}

Probes == {"torch", "horovod", "deepspeed"}

NoFault == [probe |-> "none", exc |-> "none"]

\* what a call meets: no failure, or one probe's runtime raising an exception
Faults == {NoFault} \cup [probe : Probes, exc : Exceptions]

FaultAt(fault, probe) == fault.probe = probe

Returns(v) == [kind |-> "return", val |-> v, exc |-> "none"]

Raises(e) == [kind |-> "raise", val |-> None, exc |-> e]

FallThrough == [kind |-> "next", val |-> None, exc |-> "none"]

\* lines 29-35: torch.distributed, only when available and initialized
ProbeTorch(fault) ==
    IF ~TORCH_AVAILABLE THEN FallThrough
    ELSE IF FaultAt(fault, "torch")
         THEN IF fault.exc \in {"ImportError", "RuntimeError"}
              THEN FallThrough ELSE Raises(fault.exc)
    ELSE IF dist.available /\ dist.initialized THEN Returns(PyInt(dist.rank))
    ELSE FallThrough

\* lines 38-43: Horovod; hvd.init() is called whenever the module imports
ProbeHorovod(fault) ==
    IF "horovod" \notin installed THEN FallThrough
    ELSE IF FaultAt(fault, "horovod")
         THEN IF fault.exc \in {"ImportError", "ValueError"}
              THEN FallThrough ELSE Raises(fault.exc)
    ELSE Returns(PyInt(hvd.rank))

\* hvd.init() ran to completion in the Horovod probe
HorovodInitRuns(fault) ==
    /\ ProbeTorch(fault).kind = "next"
    /\ "horovod" \in installed
    /\ ~FaultAt(fault, "horovod")

\* lines 46-51: DeepSpeed, only when deepspeed.comm exists and is initialized
ProbeDeepSpeed(fault) ==
    IF "deepspeed" \notin installed THEN FallThrough
    ELSE IF FaultAt(fault, "deepspeed")
         THEN IF fault.exc \in {"ImportError", "AttributeError"}
              THEN FallThrough ELSE Raises(fault.exc)
    ELSE IF ds.has_comm /\ ds.initialized THEN Returns(PyInt(ds.rank))
    ELSE FallThrough

\* a loop that gives up at the first variable that does not parse
RECURSIVE EnvProbeUnparsableFatal(_)
EnvProbeUnparsableFatal(i) ==
    IF i > Len(RankVars) THEN Returns(None)
    ELSE IF environ[RankVars[i]] = Absent THEN EnvProbeUnparsableFatal(i + 1)
    ELSE IF IntParses(environ[RankVars[i]])
         THEN Returns(PyInt(IntOf(environ[RankVars[i]])))
    ELSE Returns(None)

\* lines 54-61: the loop over the environment variables, from the i-th on
RECURSIVE EnvProbeFrom(_)
EnvProbeFrom(i) ==
    IF i > Len(RankVars) THEN Returns(None)
    ELSE IF environ[RankVars[i]] # Absent /\ IntParses(environ[RankVars[i]])
         THEN Returns(PyInt(IntOf(environ[RankVars[i]])))
    ELSE EnvProbeFrom(i + 1)

EnvProbe == EnvProbeFrom(1)

\* get_rank's outcome: the first probe that returns or raises decides
GetRank(fault) ==
    IF ProbeTorch(fault).kind # "next" THEN ProbeTorch(fault)
    ELSE IF ProbeHorovod(fault).kind # "next" THEN ProbeHorovod(fault)
    ELSE IF ProbeDeepSpeed(fault).kind # "next" THEN ProbeDeepSpeed(fault)
    ELSE EnvProbe

\* the state of Horovod after get_rank
HvdAfterGetRank(fault) ==
    IF HorovodInitRuns(fault) THEN [hvd EXCEPT !.initialized = TRUE] ELSE hvd

\* which source decided get_rank's outcome
GetRankSource(fault) ==
    IF ProbeTorch(fault).kind # "next" THEN "torch"
    ELSE IF ProbeHorovod(fault).kind # "next" THEN "horovod"
    ELSE IF ProbeDeepSpeed(fault).kind # "next" THEN "deepspeed"
    ELSE IF EnvProbe.val # None THEN "env"
    ELSE "none"

-----------------------------------------------------------------------------
(* distributed.py: seed_distributed *)

RankSeedModPow2(seed, rank) ==
    IF seed + rank > max_seed THEN (seed + rank) % (max_seed + 1) ELSE seed + rank

RankSeedSaturating(seed, rank) ==
    IF seed + rank > max_seed THEN max_seed ELSE seed + rank

RankSeedModSignedMax(seed, rank) ==
    IF seed + rank > max_seed THEN (seed + rank) % (2^(SeedBits - 1) - 1)
    ELSE seed + rank

\* lines 92-97: rank_seed = seed + rank, wrapped by % max_seed when above max_seed
RankSeed(seed, rank) ==
    IF seed + rank > max_seed THEN (seed + rank) % max_seed ELSE seed + rank

RankUsedIgnoringZero(rank, fault) ==
    IF rank # None /\ rank.val # 0 THEN rank
    ELSE IF GetRank(fault).val # None THEN GetRank(fault).val
    ELSE PyInt(0)

\* lines 86-89: the rank passed, else get_rank()'s, else 0
RankUsed(rank, fault) ==
    IF rank # None THEN rank
    ELSE IF GetRank(fault).val # None THEN GetRank(fault).val
    ELSE PyInt(0)

RankSource(rank, fault) ==
    IF rank # None THEN "arg"
    ELSE IF GetRank(fault).val # None THEN GetRankSource(fault)
    ELSE "default"

EnvAfterSeedDistributedOverwriting ==
    [environ EXCEPT !["NCCL_DEBUG"] = <<"W", "A", "R", "N">>]

\* lines 102-103: NCCL_DEBUG is set to WARN unless it is set already
EnvAfterSeedDistributed ==
    IF environ["NCCL_DEBUG"] = Absent
    THEN [environ EXCEPT !["NCCL_DEBUG"] = <<"W", "A", "R", "N">>]
    ELSE environ

\* the record of a call
Call(op, seed, rank, used, source, outcome) ==
    [op |-> op, seed |-> seed, rank |-> rank, used |-> used, source |-> source,
     cb |-> 0, applied |-> {}, deterministic |-> FALSE,
     kind |-> outcome.kind, val |-> outcome.val, exc |-> outcome.exc]

NoCall == Call("none", None, None, None, "none", Returns(None))

-----------------------------------------------------------------------------
(* The operations *)

\* validate_seed(seed), called on its own
ValidateSeed(seed) ==
    /\ ret' = Call("validate_seed", seed, None, None, "none",
                   IF validate_seed(seed) = "ok" THEN Returns(None)
                   ELSE Raises(validate_seed(seed)))
    /\ UNCHANGED <<sys, draws, estimator, fan, installed, environ, dist, hvd, ds, py_rng, np_rng, torch_rng,
                   callbacks>>

\* get_rank()
get_rank(fault) ==
    /\ ret' = Call("get_rank", None, None, None, GetRankSource(fault), GetRank(fault))
    /\ hvd' = HvdAfterGetRank(fault)
    /\ UNCHANGED <<sys, draws, estimator, fan, installed, environ, dist, ds, py_rng, np_rng, torch_rng, callbacks>>

\* seed_distributed(seed, rank)
seed_distributed(seed, rank, fault) ==
    IF validate_seed(seed) # "ok"
    THEN /\ ret' = Call("seed_distributed", seed, rank, None, "none",
                        Raises(validate_seed(seed)))
         /\ UNCHANGED <<sys, draws, estimator, fan, installed, environ, dist, hvd, ds, py_rng, np_rng, torch_rng,
                        callbacks>>
    ELSE IF rank = None /\ GetRank(fault).kind = "raise"
    THEN /\ ret' = Call("seed_distributed", seed, rank, None, GetRankSource(fault),
                        GetRank(fault))
         /\ hvd' = HvdAfterGetRank(fault)
         /\ UNCHANGED <<sys, draws, estimator, fan, installed, environ, dist, ds, py_rng, np_rng, torch_rng,
                        callbacks>>
    ELSE /\ ret' = Call("seed_distributed", seed, rank, RankUsed(rank, fault),
                        RankSource(rank, fault),
                        Returns(PyInt(RankSeed(seed.val, RankUsed(rank, fault).val))))
         /\ hvd' = IF rank = None THEN HvdAfterGetRank(fault) ELSE hvd
         /\ environ' = EnvAfterSeedDistributed
         /\ UNCHANGED <<sys, draws, estimator, fan, installed, dist, ds, py_rng, np_rng, torch_rng, callbacks>>

-----------------------------------------------------------------------------
(* distributed.py: get_worker_init_fn *)

\* get_worker_init_fn(base_seed): the closure captures base_seed; nothing else
\* happens until it is invoked
get_worker_init_fn(base_seed) ==
    /\ Len(callbacks) < MaxCallbacks
    /\ callbacks' = Append(callbacks, base_seed)
    /\ ret' = [Call("get_worker_init_fn", base_seed, None, None, "none", Returns(None))
                   EXCEPT !.cb = Len(callbacks) + 1]
    /\ UNCHANGED <<sys, draws, estimator, fan, installed, environ, dist, hvd, ds, py_rng, np_rng, torch_rng>>

WorkerSeedLateBinding(k, worker_id) == callbacks[Len(callbacks)].val + worker_id

\* line 168: worker_seed = base_seed + worker_id, base_seed the k-th closure's
WorkerSeed(k, worker_id) == callbacks[k].val + worker_id

\* numpy.random.seed(s) raises ValueError unless 0 <= s <= 2**32 - 1
NumpySeedAccepts(s) == 0 <= s /\ s <= max_seed

\* lines 174-178: numpy is seeded when it imports; only ImportError is caught
NumpySeedRaises(s) == "numpy" \in installed /\ ~NumpySeedAccepts(s)

\* the subsystems an invocation of _init_fn seeds before it returns or raises
WorkerApplied(s) ==
    {"python"}
    \cup (IF "numpy" \in installed /\ NumpySeedAccepts(s) THEN {"numpy"} ELSE {})
    \cup (IF TORCH_AVAILABLE /\ ~NumpySeedRaises(s) THEN {"torch"} ELSE {})

\* lines 163-183: the k-th closure invoked with worker_id
worker_init(k, worker_id) ==
    LET s == WorkerSeed(k, worker_id)
    IN /\ k \in 1..Len(callbacks)
       /\ py_rng' = PyInt(s)
       /\ np_rng' = IF "numpy" \in WorkerApplied(s) THEN PyInt(s) ELSE np_rng
       /\ torch_rng' = IF "torch" \in WorkerApplied(s) THEN PyInt(s) ELSE torch_rng
       /\ ret' = [Call("worker_init", callbacks[k], PyInt(worker_id), PyInt(s), "none",
                       IF NumpySeedRaises(s) THEN Raises("ValueError")
                       ELSE Returns(None))
                      EXCEPT !.cb = k, !.applied = WorkerApplied(s)]
       /\ draws' = [r \in DOMAIN draws |->
                       IF r \in WorkerApplied(s) THEN 0 ELSE draws[r]]
       /\ sys' = IF "torch" \in WorkerApplied(s) /\ "cuda" \in installed
                 THEN [sys EXCEPT !.cuda_rng = PyInt(s)] ELSE sys
       /\ UNCHANGED <<estimator, fan, installed, environ, dist, hvd, ds, callbacks>>

-----------------------------------------------------------------------------
(* distributed.py: worker_init_fn *)

\* base_seed: int = 42
DefaultBaseSeed == 42

\* the function object worker_init_fn returns, with the base seed it captured
Closure(base_seed) == [kind |-> "function", val |-> base_seed.val]

\* lines 108-144: worker_init_fn(worker_id, base_seed) defines _init_fn and
\* returns it; it does not invoke it, and worker_id is not used
worker_init_fn(worker_id, base_seed) ==
    /\ ret' = Call("worker_init_fn", base_seed, PyInt(worker_id), None, "none",
                   Returns(Closure(base_seed)))
    /\ UNCHANGED <<sys, draws, estimator, fan, installed, environ, dist, hvd, ds,
                   py_rng, np_rng, torch_rng, callbacks>>

-----------------------------------------------------------------------------
(* The per-subsystem seeders: what each does to the process, as a function of
   the process w it finds *)

\* the part of the process the seeders write
World ==
    [environ |-> environ, py_rng |-> py_rng, np_rng |-> np_rng,
     torch_rng |-> torch_rng, sys |-> sys, draws |-> draws]

Install(w) ==
    /\ environ' = w.environ
    /\ py_rng' = w.py_rng
    /\ np_rng' = w.np_rng
    /\ torch_rng' = w.torch_rng
    /\ sys' = w.sys
    /\ draws' = w.draws

\* what a seeder did: how it ended, and the process it left
Outcome(out, w) == [out |-> out, w |-> w]

\* str(n) for an int n >= 0
RECURSIVE Decimal(_)
Decimal(n) ==
    IF n < 10 THEN <<Digits[n + 1]>>
    ELSE Decimal(n \div 10) \o <<Digits[(n % 10) + 1]>>

\* str(seed) for a seed validate_seed accepted: str(True) is 'True'
Str(seed) ==
    IF seed.kind = "bool"
    THEN (IF seed.val = 1 THEN <<"T", "r", "u", "e">>
          ELSE <<"F", "a", "l", "s", "e">>)
    ELSE Decimal(seed.val)

NUMPY_AVAILABLE == "numpy" \in installed

TENSORFLOW_AVAILABLE == "tensorflow" \in installed

JAX_AVAILABLE == "jax" \in installed

\* torch.cuda.is_available()
CudaAvailable == "cuda" \in installed

\* the handles the seeders return
Generator(seed) == [kind |-> "Generator", val |-> seed.val]

PRNGKey(seed) == [kind |-> "PRNGKey", val |-> seed.val]

RandomState(seed) == [kind |-> "RandomState", val |-> seed.val]

SeedPythonValidatesLate(w, seed) ==
    LET seeded == [w EXCEPT !.py_rng = PyInt(seed.val), !.draws["python"] = 0]
    IN IF validate_seed(seed) # "ok"
       THEN Outcome(Raises(validate_seed(seed)), seeded)
       ELSE Outcome(Returns(None),
                    [seeded EXCEPT !.environ["PYTHONHASHSEED"] = Str(seed)])

\* python_seeds.py: seed_python
SeedPython(w, seed) ==
    IF validate_seed(seed) # "ok" THEN Outcome(Raises(validate_seed(seed)), w)
    ELSE Outcome(Returns(None),
                 [w EXCEPT !.py_rng = PyInt(seed.val), !.draws["python"] = 0,
                           !.environ["PYTHONHASHSEED"] = Str(seed)])

SeedNumpyGeneratorOnly(w, seed) ==
    IF ~NUMPY_AVAILABLE THEN Outcome(Returns(None), w)
    ELSE IF validate_seed(seed) # "ok" THEN Outcome(Raises(validate_seed(seed)), w)
    ELSE Outcome(Returns(Generator(seed)), w)

\* numpy_seeds.py: seed_numpy
SeedNumpy(w, seed) ==
    IF ~NUMPY_AVAILABLE THEN Outcome(Returns(None), w)
    ELSE IF validate_seed(seed) # "ok" THEN Outcome(Raises(validate_seed(seed)), w)
    ELSE Outcome(Returns(Generator(seed)),
                 [w EXCEPT !.np_rng = PyInt(seed.val), !.draws["numpy"] = 0])

\* lines 37-47: the seeds and the cuDNN switches
TorchSeeded(w, seed, deterministic, benchmark) ==
    [w EXCEPT !.torch_rng = PyInt(seed.val), !.draws["torch"] = 0,
              !.sys.cuda_rng = IF CudaAvailable THEN PyInt(seed.val) ELSE @,
              !.sys.cudnn_deterministic = deterministic,
              !.sys.cudnn_benchmark = benchmark]

SeedTorchUnguardedEnable(w, seed, deterministic, benchmark, enable) ==
    IF ~TORCH_AVAILABLE THEN Outcome(Returns(None), w)
    ELSE IF validate_seed(seed) # "ok" THEN Outcome(Raises(validate_seed(seed)), w)
    ELSE LET seeded == TorchSeeded(w, seed, deterministic, benchmark)
         IN IF ~deterministic THEN Outcome(Returns(None), seeded)
            ELSE IF enable = "ok"
            THEN Outcome(Returns(None),
                         [seeded EXCEPT !.sys.deterministic_algorithms = TRUE])
            ELSE Outcome(Raises(enable), seeded)

\* torch_seeds.py: seed_torch; enable is "ok" or the class of the exception
\* torch.use_deterministic_algorithms(True) raises
SeedTorch(w, seed, deterministic, benchmark, enable) ==
    IF ~TORCH_AVAILABLE THEN Outcome(Returns(None), w)
    ELSE IF validate_seed(seed) # "ok" THEN Outcome(Raises(validate_seed(seed)), w)
    ELSE LET seeded == TorchSeeded(w, seed, deterministic, benchmark)
         IN IF ~deterministic THEN Outcome(Returns(None), seeded)
            ELSE IF enable = "ok"
            THEN Outcome(Returns(None),
                         [seeded EXCEPT !.sys.deterministic_algorithms = TRUE])
            ELSE IF enable = "RuntimeError" THEN Outcome(Returns(None), seeded)
            ELSE Outcome(Raises(enable), seeded)

\* lines 33-35: the two toggles
TensorflowToggles(env) ==
    [env EXCEPT !["TF_DETERMINISTIC_OPS"] = <<"1">>,
                !["TF_CUDNN_DETERMINISTIC"] = <<"1">>]

SeedTensorflowTogglesFirst(w, seed, deterministic, enable) ==
    LET toggled == IF deterministic
                   THEN [w EXCEPT !.environ = TensorflowToggles(@)] ELSE w
    IN IF ~TENSORFLOW_AVAILABLE THEN Outcome(Returns(None), toggled)
       ELSE IF validate_seed(seed) # "ok"
       THEN Outcome(Raises(validate_seed(seed)), toggled)
       ELSE Outcome(Returns(None),
                    [toggled EXCEPT !.sys.tf_rng = PyInt(seed.val),
                                    !.draws["tensorflow"] = 0,
                                    !.sys.op_determinism =
                                        IF deterministic /\ enable = "ok"
                                        THEN TRUE ELSE @])

\* tensorflow_seeds.py: seed_tensorflow; enable is "ok" or the class of the
\* exception tf.config.experimental.enable_op_determinism() raises
SeedTensorflow(w, seed, deterministic, enable) ==
    IF ~TENSORFLOW_AVAILABLE THEN Outcome(Returns(None), w)
    ELSE IF validate_seed(seed) # "ok" THEN Outcome(Raises(validate_seed(seed)), w)
    ELSE LET seeded == [w EXCEPT !.sys.tf_rng = PyInt(seed.val),
                                 !.draws["tensorflow"] = 0]
         IN IF ~deterministic THEN Outcome(Returns(None), seeded)
            ELSE Outcome(Returns(None),
                         [seeded EXCEPT !.environ = TensorflowToggles(@),
                                        !.sys.op_determinism =
                                            IF enable = "ok" THEN TRUE ELSE @])

SeedJaxReseedsNumpy(w, seed) ==
    IF ~JAX_AVAILABLE THEN Outcome(Returns(None), w)
    ELSE IF validate_seed(seed) # "ok" THEN Outcome(Raises(validate_seed(seed)), w)
    ELSE Outcome(Returns(PRNGKey(seed)),
                 [w EXCEPT !.np_rng = PyInt(0), !.draws["numpy"] = 0])

\* jax_seeds.py: seed_jax
SeedJax(w, seed) ==
    IF ~JAX_AVAILABLE THEN Outcome(Returns(None), w)
    ELSE IF validate_seed(seed) # "ok" THEN Outcome(Raises(validate_seed(seed)), w)
    ELSE Outcome(Returns(PRNGKey(seed)), w)

\* sklearn_seeds.py: get_sklearn_random_state
GetSklearnRandomState(w, seed) ==
    IF ~NUMPY_AVAILABLE THEN Outcome(Returns(None), w)
    ELSE IF validate_seed(seed) # "ok" THEN Outcome(Raises(validate_seed(seed)), w)
    ELSE Outcome(Returns(RandomState(seed)), w)

\* how the two enabling calls of a seed_everything call end
NoEnableFault == [torch |-> "ok", tensorflow |-> "ok"]

\* a call of one seeder, recorded
Seeder(op, seed, deterministic, r) ==
    /\ Install(r.w)
    /\ ret' = [Call(op, seed, None, None, "none", r.out)
                   EXCEPT !.deterministic = deterministic]
    /\ UNCHANGED <<installed, dist, hvd, ds, callbacks, estimator, fan>>

seed_python(seed) ==
    Seeder("seed_python", seed, FALSE, SeedPython(World, seed))

seed_numpy(seed) ==
    Seeder("seed_numpy", seed, FALSE, SeedNumpy(World, seed))

seed_torch(seed, deterministic, benchmark, enable) ==
    Seeder("seed_torch", seed, deterministic,
           SeedTorch(World, seed, deterministic, benchmark, enable))

seed_tensorflow(seed, deterministic, enable) ==
    Seeder("seed_tensorflow", seed, deterministic,
           SeedTensorflow(World, seed, deterministic, enable))

seed_jax(seed) ==
    Seeder("seed_jax", seed, FALSE, SeedJax(World, seed))

get_sklearn_random_state(seed) ==
    Seeder("get_sklearn_random_state", seed, FALSE,
           GetSklearnRandomState(World, seed))

-----------------------------------------------------------------------------
(* core.py: seed_everything *)

\* a dict, as the function from its keys to their values
PyDict(items) == [kind |-> "dict", val |-> 0, items |-> items]

ResultKeysCudaOutsideTry(numpy_rng, jax_key) ==
    {"seed", "deterministic", "python", "numpy", "torch", "tensorflow", "jax",
     "torch_cuda"}
    \cup (IF numpy_rng # None THEN {"numpy_rng"} ELSE {})
    \cup (IF jax_key # None THEN {"jax_key"} ELSE {})

\* lines 58-96: the keys of the result
ResultKeys(numpy_rng, jax_key) ==
    {"seed", "deterministic", "python", "numpy", "torch", "tensorflow", "jax"}
    \cup (IF numpy_rng # None THEN {"numpy_rng"} ELSE {})
    \cup (IF TORCH_AVAILABLE THEN {"torch_cuda"} ELSE {})
    \cup (IF jax_key # None THEN {"jax_key"} ELSE {})

\* lines 58-96: the result, from what seed_numpy and seed_jax returned
Result(seed, deterministic, numpy_rng, jax_key) ==
    [k \in ResultKeys(numpy_rng, jax_key) |->
        CASE k = "seed" -> seed
          [] k = "deterministic" -> PyBool(deterministic)
          [] k = "python" -> PyBool(TRUE)
          [] k = "numpy" -> PyBool(numpy_rng # None)
          [] k = "numpy_rng" -> numpy_rng
          [] k = "torch" -> PyBool(TORCH_AVAILABLE)
          [] k = "torch_cuda" -> PyBool(CudaAvailable)
          [] k = "tensorflow" -> PyBool(TENSORFLOW_AVAILABLE)
          [] k = "jax" -> PyBool(jax_key # None)
          [] k = "jax_key" -> jax_key]

\* lines 56-98: validate, then the five seeders in the order of the code; an
\* exception a seeder lets through ends the call where it is
SeedEverything(w, seed, deterministic, fault) ==
    IF validate_seed(seed) # "ok" THEN Outcome(Raises(validate_seed(seed)), w)
    ELSE
    LET p == SeedPython(w, seed) IN
    IF p.out.kind = "raise" THEN p ELSE
    LET n == SeedNumpy(p.w, seed) IN
    IF n.out.kind = "raise" THEN n ELSE
    LET t == SeedTorch(n.w, seed, deterministic, FALSE, fault.torch) IN
    IF t.out.kind = "raise" THEN t ELSE
    LET f == SeedTensorflow(t.w, seed, deterministic, fault.tensorflow) IN
    IF f.out.kind = "raise" THEN f ELSE
    LET j == SeedJax(f.w, seed) IN
    IF j.out.kind = "raise" THEN j ELSE
    Outcome(Returns(PyDict(Result(seed, deterministic, n.out.val, j.out.val))),
            j.w)

seed_everything(seed, deterministic, fault) ==
    Seeder("seed_everything", seed, deterministic,
           SeedEverything(World, seed, deterministic, fault))

\* the seed a process-global RNG was last given
RngSeed(r) ==
    CASE r = "python" -> py_rng
      [] r = "numpy" -> np_rng
      [] r = "torch" -> torch_rng
      [] r = "tensorflow" -> sys.tf_rng

\* a caller draws a number from one of the process-global RNGs
Draw(r) ==
    /\ r = "python" \/ r \in installed
    /\ draws[r] < MaxDraws
    /\ draws' = [draws EXCEPT ![r] = @ + 1]
    /\ ret' = Call("draw", RngSeed(r), None, None, r, Returns(None))
    /\ UNCHANGED <<sys, estimator, fan, installed, environ, dist, hvd, ds,
                   py_rng, np_rng, torch_rng, callbacks>>

-----------------------------------------------------------------------------
(* sklearn_seeds.py: seed_sklearn_estimator *)

\* a reference to the object with identity id
Object(id) == [kind |-> "object", val |-> id]

\* what went on in a call: how it ended, the estimator it left, and the
\* strategies it tried
Seeded(out, e, tried) == [out |-> out, e |-> e, tried |-> tried]

\* lines 64-69: the direct assignment, after set_params was tried or was not
AssignRandomState(e, seed, tried) ==
    IF ~e.has_field THEN Seeded(Returns(Object(e.id)), e, tried)
    ELSE IF e.assign = "ok"
    THEN Seeded(Returns(Object(e.id)), [e EXCEPT !.random_state = seed],
                tried \cup {"assign"})
    ELSE IF e.assign = "AttributeError"
    THEN Seeded(Returns(Object(e.id)), e, tried \cup {"assign"})
    ELSE Seeded(Raises(e.assign), e, tried \cup {"assign"})

SeedSklearnEstimatorNoEarlyReturn(e, seed) ==
    IF validate_seed(seed) # "ok" THEN Seeded(Raises(validate_seed(seed)), e, {})
    ELSE IF ~e.has_set_params THEN AssignRandomState(e, seed, {})
    ELSE IF e.set_params = "ok"
    THEN AssignRandomState([e EXCEPT !.random_state = seed], seed, {"set_params"})
    ELSE IF e.set_params \in {"ValueError", "TypeError"}
    THEN AssignRandomState(e, seed, {"set_params"})
    ELSE Seeded(Raises(e.set_params), e, {"set_params"})

\* lines 52-71
SeedSklearnEstimator(e, seed) ==
    IF validate_seed(seed) # "ok" THEN Seeded(Raises(validate_seed(seed)), e, {})
    ELSE IF ~e.has_set_params THEN AssignRandomState(e, seed, {})
    ELSE IF e.set_params = "ok"
    THEN Seeded(Returns(Object(e.id)), [e EXCEPT !.random_state = seed],
                {"set_params"})
    ELSE IF e.set_params \in {"ValueError", "TypeError"}
    THEN AssignRandomState(e, seed, {"set_params"})
    ELSE Seeded(Raises(e.set_params), e, {"set_params"})

seed_sklearn_estimator(seed) ==
    LET r == SeedSklearnEstimator(estimator, seed)
    IN /\ estimator.id # 0
       /\ estimator' = r.e
       /\ ret' = [Call("seed_sklearn_estimator", seed, None, None, "none", r.out)
                      EXCEPT !.applied = r.tried]
       /\ UNCHANGED <<sys, draws, fan, installed, environ, dist, hvd, ds, py_rng,
                      np_rng, torch_rng, callbacks>>

\* the classes of the exceptions an estimator's set_params or the assignment
\* of its random_state raises
EstimatorErrors == Exceptions \cup {"TypeError"}

\* the estimators a caller builds: with or without set_params, with or
\* without a random_state attribute, each of the two working or raising
Estimators ==
    {e \in [id : 1..MaxEstimators,
            has_set_params : BOOLEAN, set_params : {"ok"} \cup EstimatorErrors,
            has_field : BOOLEAN, assign : {"ok"} \cup EstimatorErrors,
            random_state : {None}] :
        /\ ~e.has_set_params => e.set_params = "ok"
        /\ ~e.has_field => e.assign = "ok"}

\* the caller builds an estimator
NewEstimator(e) ==
    /\ estimator' = e
    /\ ret' = NoCall
    /\ UNCHANGED <<sys, draws, fan, installed, environ, dist, hvd, ds, py_rng,
                   np_rng, torch_rng, callbacks>>

-----------------------------------------------------------------------------
(* core.py: the five seeder calls of seed_everything, run in any order *)

FiveSeeders ==
    {"seed_python", "seed_numpy", "seed_torch", "seed_tensorflow", "seed_jax"}

\* lines 64-93: one of the five calls, as seed_everything makes it
RunOf(name, w, seed, deterministic) ==
    CASE name = "seed_python" -> SeedPython(w, seed)
      [] name = "seed_numpy" -> SeedNumpy(w, seed)
      [] name = "seed_torch" -> SeedTorch(w, seed, deterministic, FALSE, "ok")
      [] name = "seed_tensorflow" -> SeedTensorflow(w, seed, deterministic, "ok")
      [] name = "seed_jax" -> SeedJax(w, seed)

\* lines 65-96: the keys seed_everything writes after each of the five calls
Contribution(name, out) ==
    CASE name = "seed_python" -> [k \in {"python"} |-> PyBool(TRUE)]
      [] name = "seed_numpy" ->
             [k \in {"numpy"} \cup (IF out.val # None THEN {"numpy_rng"} ELSE {}) |->
                 IF k = "numpy" THEN PyBool(out.val # None) ELSE out.val]
      [] name = "seed_torch" ->
             [k \in {"torch"} \cup (IF TORCH_AVAILABLE THEN {"torch_cuda"} ELSE {}) |->
                 IF k = "torch" THEN PyBool(TORCH_AVAILABLE)
                 ELSE PyBool(CudaAvailable)]
      [] name = "seed_tensorflow" ->
             [k \in {"tensorflow"} |-> PyBool(TENSORFLOW_AVAILABLE)]
      [] name = "seed_jax" ->
             [k \in {"jax"} \cup (IF out.val # None THEN {"jax_key"} ELSE {}) |->
                 IF k = "jax" THEN PyBool(out.val # None) ELSE out.val]

\* lines 56-61: a seed_everything call begins
StartFan(seed, deterministic) ==
    /\ fan.todo = {}
    /\ validate_seed(seed) = "ok"
    /\ fan' = [todo |-> FiveSeeders, seed |-> seed,
               deterministic |-> deterministic, start |-> World,
               result |-> [k \in {"seed", "deterministic"} |->
                              IF k = "seed" THEN seed ELSE PyBool(deterministic)]]
    /\ ret' = NoCall
    /\ UNCHANGED <<sys, draws, estimator, installed, environ, dist, hvd, ds, py_rng,
                   np_rng, torch_rng, callbacks>>

\* one of the five calls still to make is made; after the last, the result is
\* returned
RunSeeder(name) ==
    LET r == RunOf(name, World, fan.seed, fan.deterministic)
        result == Contribution(name, r.out) @@ fan.result
    IN /\ name \in fan.todo
       /\ Install(r.w)
       /\ fan' = [fan EXCEPT !.todo = @ \ {name}, !.result = result]
       /\ ret' = IF fan.todo = {name}
                 THEN [Call("seed_everything", fan.seed, None, None, "none",
                            Returns(PyDict(result)))
                           EXCEPT !.deterministic = fan.deterministic]
                 ELSE NoCall
       /\ UNCHANGED <<installed, dist, hvd, ds, callbacks, estimator>>

-----------------------------------------------------------------------------
(* The process around the library: its environment and its callers *)

EnvNames ==
    {"RANK", "LOCAL_RANK", "SLURM_PROCID", "PMI_RANK", "NCCL_DEBUG",
     "PYTHONHASHSEED", "TF_DETERMINISTIC_OPS", "TF_CUDNN_DETERMINISTIC"}

\* values a launcher or a caller gives a rank variable
RankStrings == {<<" ", "2">>, <<"-", "1">>, <<"x">>}

\* a value a caller gives NCCL_DEBUG
NcclStrings == {<<"I", "N", "F", "O">>}

RuntimeRanks == 0..MaxRuntimeRank

\* os.environ[name] = value
SetEnv(name, value) ==
    /\ environ' = [environ EXCEPT ![name] = value]
    /\ ret' = NoCall
    /\ UNCHANGED <<sys, draws, estimator, fan, installed, dist, hvd, ds, py_rng, np_rng, torch_rng, callbacks>>

\* os.environ.pop(name)
PopEnv(name) ==
    /\ environ[name] # Absent
    /\ environ' = [environ EXCEPT ![name] = Absent]
    /\ ret' = NoCall
    /\ UNCHANGED <<sys, draws, estimator, fan, installed, dist, hvd, ds, py_rng, np_rng, torch_rng, callbacks>>

\* torch.distributed as the process finds it
DistStates ==
    IF ~TORCH_AVAILABLE
    THEN {[available |-> FALSE, initialized |-> FALSE, rank |-> 0]}
    ELSE {[available |-> a, initialized |-> FALSE, rank |-> 0] : a \in BOOLEAN}
         \cup {[available |-> TRUE, initialized |-> TRUE, rank |-> r] : r \in RuntimeRanks}

\* Horovod as the process finds it: rank is the rank hvd.init() gives the process
HvdStates ==
    IF "horovod" \notin installed
    THEN {[initialized |-> FALSE, by_caller |-> FALSE, rank |-> 0]}
    ELSE {[initialized |-> i, by_caller |-> i, rank |-> r] :
              i \in BOOLEAN, r \in RuntimeRanks}

\* DeepSpeed as the process finds it
DsStates ==
    IF "deepspeed" \notin installed
    THEN {[has_comm |-> FALSE, initialized |-> FALSE, rank |-> 0]}
    ELSE {[has_comm |-> c, initialized |-> FALSE, rank |-> 0] : c \in BOOLEAN}
         \cup {[has_comm |-> TRUE, initialized |-> TRUE, rank |-> r] : r \in RuntimeRanks}

\* the process-global RNGs
Rngs == {"python", "numpy", "torch", "tensorflow"}

\* a fresh process: nothing seeded, every determinism switch at its default
InitSys ==
    [tf_rng |-> None, cuda_rng |-> None,
     cudnn_deterministic |-> FALSE, cudnn_benchmark |-> FALSE,
     deterministic_algorithms |-> FALSE, op_determinism |-> FALSE]

\* no estimator built yet
NoEstimator ==
    [id |-> 0, has_set_params |-> FALSE, set_params |-> "ok",
     has_field |-> FALSE, assign |-> "ok", random_state |-> None]

NoFan ==
    [todo |-> {}, seed |-> None, deterministic |-> FALSE, start |-> <<>>,
     result |-> <<>>]

\* the process after importing the package, with modules among mods installed
InitWith(mods) ==
    /\ installed \in SUBSET mods
    /\ environ = [n \in EnvNames |-> Absent]
    /\ dist \in DistStates
    /\ hvd \in HvdStates
    /\ ds \in DsStates
    /\ py_rng = None
    /\ np_rng = None
    /\ torch_rng = None
    /\ callbacks = <<>>
    /\ sys = InitSys
    /\ draws = [r \in Rngs |-> 0]
    /\ estimator = NoEstimator
    /\ fan = NoFan
    /\ ret = NoCall
    /\ prev = NoCall

-----------------------------------------------------------------------------
(* Arguments *)

\* seeds a caller passes: every integer around the valid range, and non-integers
SeedArgs ==
    {PyInt(n) : n \in -2..(max_seed + 2)}
    \cup {PyBool(TRUE), PyBool(FALSE), PyFloat(1), PyFloat(-1), PyStr(1), None}

ValidSeeds == {PyInt(n) : n \in 0..max_seed}

\* ranks a caller passes explicitly
RankArgs == {PyInt(n) : n \in -1..(2 * max_seed + 1)}

-----------------------------------------------------------------------------
(* Specifications *)

\* validate_seed and seed_distributed with an explicit rank
InitDerive == InitWith({})

NextDerive ==
    \/ \E seed \in SeedArgs : ValidateSeed(seed) /\ UNCHANGED prev
    \/ \E seed \in SeedArgs, rank \in RankArgs :
           seed_distributed(seed, rank, NoFault) /\ UNCHANGED prev
    \/ \E value \in NcclStrings : SetEnv("NCCL_DEBUG", value) /\ UNCHANGED prev
    \/ PopEnv("NCCL_DEBUG") /\ UNCHANGED prev

SpecDerive == InitDerive /\ [][NextDerive]_vars

\* the participants of one group: each calls seed_distributed with the group's
\* base seed and its own rank
InitGroup == InitWith({})

NextGroup ==
    \E seed \in ValidSeeds, rank \in RankArgs :
        /\ ret = NoCall \/ seed = ret.seed
        /\ seed_distributed(seed, rank, NoFault)
        /\ prev' = ret

SpecGroup == InitGroup /\ [][NextGroup]_vars

\* get_rank in a process with any of the three runtimes and any rank variables
InitRank == InitWith({"torch", "horovod", "deepspeed"})

NextRank ==
    \/ \E fault \in Faults : get_rank(fault) /\ UNCHANGED prev
    \/ \E i \in 1..Len(RankVars), value \in RankStrings :
           SetEnv(RankVars[i], value) /\ UNCHANGED prev
    \/ \E i \in 1..Len(RankVars) : PopEnv(RankVars[i]) /\ UNCHANGED prev

SpecRank == InitRank /\ [][NextRank]_vars

\* seed_distributed with and without a rank, in a process with any of the three
\* runtimes and the first two rank variables
InitAuto == InitWith({"torch", "horovod", "deepspeed"})

AutoSeeds == {PyInt(0), PyInt(max_seed)}

AutoRanks == {PyInt(0), PyInt(1)}

NextAuto ==
    \/ \E seed \in AutoSeeds, fault \in Faults :
           seed_distributed(seed, None, fault) /\ UNCHANGED prev
    \/ \E seed \in AutoSeeds, rank \in AutoRanks :
           seed_distributed(seed, rank, NoFault) /\ UNCHANGED prev
    \/ \E i \in 1..2, value \in RankStrings :
           SetEnv(RankVars[i], value) /\ UNCHANGED prev
    \/ \E i \in 1..2 : PopEnv(RankVars[i]) /\ UNCHANGED prev

SpecAuto == InitAuto /\ [][NextAuto]_vars

\* closures from get_worker_init_fn, invoked in the workers of a data loader
InitWorker == InitWith({"numpy", "torch"})

WorkerBaseSeeds == {PyInt(0), PyInt(max_seed - 1), PyInt(max_seed)}

NextWorker ==
    \/ \E base_seed \in WorkerBaseSeeds :
           get_worker_init_fn(base_seed) /\ prev' = ret
    \/ \E k \in 1..MaxCallbacks, worker_id \in 0..MaxWorkerId :
           worker_init(k, worker_id) /\ prev' = ret

SpecWorker == InitWorker /\ [][NextWorker]_vars

\* the seeders and seed_everything, in every environment
InitSeeders == InitWith({"numpy", "torch", "tensorflow", "jax"}) /\ ~dist.available

SeederSeeds == {PyInt(-1), PyInt(1), PyBool(TRUE)}

\* how torch.use_deterministic_algorithms(True) ends: PyTorch reports what it
\* cannot make deterministic as RuntimeError
TorchEnable == {"ok", "RuntimeError"}

\* how tf.config.experimental.enable_op_determinism() ends
TensorflowEnable == {"ok"} \cup Exceptions

EnableFaults == [torch : TorchEnable, tensorflow : TensorflowEnable]

NextSeeders ==
    /\ UNCHANGED prev
    /\ \E seed \in SeederSeeds :
          \/ seed_python(seed)
          \/ seed_numpy(seed)
          \/ \E d \in BOOLEAN : seed_torch(seed, d, FALSE, "ok")
          \/ \E d \in BOOLEAN : seed_tensorflow(seed, d, "ok")
          \/ seed_jax(seed)
          \/ get_sklearn_random_state(seed)
          \/ seed_distributed(seed, PyInt(0), NoFault)
          \/ \E d \in BOOLEAN : seed_everything(seed, d, NoEnableFault)

SpecSeeders == InitSeeders /\ [][NextSeeders]_vars

\* every operation that accepts a seed, given seeds validate_seed rejects
InitInvalid == InitWith({"numpy", "torch", "tensorflow", "jax"}) /\ ~dist.available

InvalidSeeds == {PyInt(-1), PyInt(max_seed + 1), PyFloat(1)}

NextInvalid ==
    /\ UNCHANGED prev
    /\ \E seed \in InvalidSeeds :
          \/ seed_python(seed)
          \/ seed_numpy(seed)
          \/ \E d \in BOOLEAN : seed_torch(seed, d, FALSE, "ok")
          \/ \E d \in BOOLEAN : seed_tensorflow(seed, d, "ok")
          \/ seed_jax(seed)
          \/ get_sklearn_random_state(seed)
          \/ seed_distributed(seed, PyInt(0), NoFault)
          \/ \E d \in BOOLEAN : seed_everything(seed, d, NoEnableFault)
          \/ get_worker_init_fn(seed)
          \/ \E k \in 1..MaxCallbacks : worker_init(k, 0)

SpecInvalid == InitInvalid /\ [][NextInvalid]_vars

\* seeding, drawing and seeding again
InitReseed == InitWith({"numpy", "torch", "tensorflow", "cuda"}) /\ ~dist.available

ReseedSeeds == {PyInt(0), PyInt(max_seed)}

NextReseed ==
    \/ /\ prev' = ret
       /\ \E seed \in ReseedSeeds :
             \/ seed_python(seed)
             \/ seed_numpy(seed)
             \/ seed_torch(seed, TRUE, FALSE, "ok")
             \/ seed_tensorflow(seed, TRUE, "ok")
             \/ seed_everything(seed, TRUE, NoEnableFault)
    \/ /\ prev' = NoCall
       /\ \E r \in Rngs : Draw(r)

SpecReseed == InitReseed /\ [][NextReseed]_vars

\* seed_everything, in every environment, its enabling calls failing or not
InitEverything ==
    InitWith({"numpy", "torch", "tensorflow", "jax", "cuda"}) /\ ~dist.available

EverythingSeeds ==
    {PyInt(-1), PyInt(0), PyInt(max_seed), PyInt(max_seed + 1), PyBool(TRUE),
     PyFloat(1)}

NextEverything ==
    /\ UNCHANGED prev
    /\ \E seed \in EverythingSeeds, d \in BOOLEAN, fault \in EnableFaults :
          seed_everything(seed, d, fault)

SpecEverything == InitEverything /\ [][NextEverything]_vars

\* estimators of every shape, seeded and seeded again
InitEstimator == InitWith({})

EstimatorSeeds == {PyInt(-1), PyInt(0), PyInt(max_seed), PyFloat(1)}

NextEstimator ==
    /\ UNCHANGED prev
    /\ \/ \E e \in Estimators : NewEstimator(e)
       \/ \E seed \in EstimatorSeeds : seed_sklearn_estimator(seed)

SpecEstimator == InitEstimator /\ [][NextEstimator]_vars

\* the five seeder calls of seed_everything made in every order, call after
\* call
InitOrder ==
    InitWith({"numpy", "torch", "tensorflow", "jax", "cuda"}) /\ ~dist.available

OrderSeeds == {PyInt(0), PyInt(max_seed)}

NextOrder ==
    /\ UNCHANGED prev
    /\ \/ \E seed \in OrderSeeds, d \in BOOLEAN : StartFan(seed, d)
       \/ \E name \in FiveSeeders : RunSeeder(name)

SpecOrder == InitOrder /\ [][NextOrder]_vars

\* worker_init_fn given to a DataLoader as its hook, beside the callbacks of
\* get_worker_init_fn
InitHook == InitWith({"numpy", "torch"})

HookBaseSeeds == {PyInt(0), PyInt(1), PyInt(DefaultBaseSeed)}

NextHook ==
    /\ UNCHANGED prev
    /\ \/ \E worker_id \in 0..MaxWorkerId, base_seed \in HookBaseSeeds :
             worker_init_fn(worker_id, base_seed)
       \/ \E base_seed \in HookBaseSeeds : get_worker_init_fn(base_seed)
       \/ \E k \in 1..MaxCallbacks, worker_id \in 0..MaxWorkerId :
             worker_init(k, worker_id)

SpecHook == InitHook /\ [][NextHook]_vars

\* the operations that validate first, given valid and invalid seeds in a
\* process already seeded
InitAtomic == InitWith({"numpy", "torch", "tensorflow", "horovod"}) /\ ~dist.available

AtomicSeeds == {PyInt(-1), PyInt(1), PyInt(max_seed + 1), PyFloat(1)}

AtomicEstimators ==
    {e \in Estimators : e.id = 1 /\ e.set_params = "ok" /\ e.assign = "ok"}

NextAtomic ==
    /\ UNCHANGED prev
    /\ \/ \E seed \in AtomicSeeds :
             \/ seed_python(seed)
             \/ \E d \in BOOLEAN : seed_everything(seed, d, NoEnableFault)
             \/ \E rank \in {PyInt(0), None} : seed_distributed(seed, rank, NoFault)
             \/ seed_sklearn_estimator(seed)
       \/ \E e \in AtomicEstimators : NewEstimator(e)

SpecAtomic == InitAtomic /\ [][NextAtomic]_vars

-----------------------------------------------------------------------------
(* Claims *)

Returned(op) == ret.op = op /\ ret.kind = "return"

\* C1: for a valid base seed and a rank >= 0, seed_distributed returns
\* base_seed + rank when the sum is at most max_seed, and otherwise the sum
\* modulo max_seed, which is strictly below max_seed.
C1_RankSeedWraps ==
    (Returned("seed_distributed") /\ ret.used.val >= 0) =>
        LET sum == ret.seed.val + ret.used.val
        IN /\ sum <= max_seed => ret.val = PyInt(sum)
           /\ sum > max_seed =>
                 /\ ret.val = PyInt(sum % max_seed)
                 /\ ret.val.val < max_seed

\* a call whose sum is a multiple of max_seed above it has returned
C1_Witness ==
    /\ Returned("seed_distributed")
    /\ ret.seed.val + ret.used.val = 2 * max_seed
    /\ ret.val = PyInt(0)

BothReturned ==
    /\ Returned("seed_distributed")
    /\ prev.op = "seed_distributed" /\ prev.kind = "return"
    /\ ret.seed = prev.seed
    /\ ret.used.val >= 0 /\ prev.used.val >= 0

Distance(a, b) == IF a >= b THEN a - b ELSE b - a

\* C2 as stated: with one base seed, any two distinct ranks >= 0 get
\* different seeds.
C2_DistinctRanksDistinctSeeds ==
    (BothReturned /\ ret.used # prev.used) => ret.val # prev.val

\* C2 amended: with one base seed, two distinct ranks >= 0 that differ by
\* less than max_seed get different seeds.
C2_NearRanksDistinctSeeds ==
    (BothReturned /\ ret.used # prev.used
        /\ Distance(ret.used.val, prev.used.val) < max_seed)
    => ret.val # prev.val

\* two participants, one whose sum wrapped and one whose sum did not
C2_Witness ==
    /\ BothReturned
    /\ ret.used # prev.used
    /\ Distance(ret.used.val, prev.used.val) = max_seed - 1
    /\ ret.seed.val + ret.used.val > max_seed
    /\ prev.seed.val + prev.used.val <= max_seed

\* C3: the value seed_distributed returns is a valid seed, an integer in
\* [0, max_seed].
C3_ResultIsValidSeed ==
    Returned("seed_distributed") =>
        (ret.val.kind = "int" /\ 0 <= ret.val.val /\ ret.val.val <= max_seed)

\* C4: validate_seed returns exactly for the integers in [0, max_seed], raises
\* TypeError for every float, string and None, and ValueError for every integer
\* below 0 or above max_seed.
C4_ValidatePartition ==
    ret.op = "validate_seed" =>
        LET integral == ret.seed.kind \in {"int", "bool"}
            inRange == 0 <= ret.seed.val /\ ret.seed.val <= max_seed
        IN /\ ret.kind = "return" <=> (integral /\ inRange)
           /\ ret.seed.kind \in {"float", "str", "NoneType"} =>
                 (ret.kind = "raise" /\ ret.exc = "TypeError")
           /\ (integral /\ ~inRange) =>
                 (ret.kind = "raise" /\ ret.exc = "ValueError")
           /\ ret.kind = "raise" => ret.exc \in {"TypeError", "ValueError"}

\* a float equal to a valid seed was refused as a TypeError
C4_Witness ==
    /\ ret.op = "validate_seed"
    /\ ret.seed = PyFloat(1)
    /\ ret.kind = "raise" /\ ret.exc = "TypeError"

\* the i-th rank variable is present and parses as an integer
Qualifies(i) == environ[RankVars[i]] # Absent /\ IntParses(environ[RankVars[i]])

\* get_rank ran past the three runtime probes: none of them yielded a rank
NoRuntimeYieldedRank == ret.op = "get_rank" /\ ret.source \in {"env", "none"}

\* C6: when no runtime yields a rank, get_rank returns the integer value of
\* the first of RANK, LOCAL_RANK, SLURM_PROCID, PMI_RANK that is present and
\* parses; a present variable that does not parse is skipped; with no such
\* variable it returns None.
C6_EnvProbeOrder ==
    NoRuntimeYieldedRank =>
        /\ ret.kind = "return"
        /\ \A i \in 1..Len(RankVars) :
              (Qualifies(i) /\ \A j \in 1..(i - 1) : ~Qualifies(j))
              => ret.val = PyInt(IntOf(environ[RankVars[i]]))
        /\ (\A i \in 1..Len(RankVars) : ~Qualifies(i)) => ret.val = None

\* RANK is present and does not parse, LOCAL_RANK is absent, SLURM_PROCID
\* parses: get_rank returned SLURM_PROCID's value
C6_Witness ==
    /\ NoRuntimeYieldedRank
    /\ environ["RANK"] = <<"x">>
    /\ environ["LOCAL_RANK"] = Absent
    /\ environ["SLURM_PROCID"] = <<" ", "2">>
    /\ environ["PMI_RANK"] = <<"-", "1">>
    /\ ret.val = PyInt(2)

\* no runtime was initialized by the caller
NoRuntimeInitializedByCaller ==
    /\ ~dist.initialized
    /\ ~(hvd.initialized /\ hvd.by_caller)
    /\ ~ds.initialized

\* C7: when no runtime has been initialized by the caller, installed or not,
\* the result get_rank returns is the one the environment-variable probe
\* gives: no runtime supplies it.
C7_UninitializedRuntimeNeverSupplies ==
    (Returned("get_rank") /\ NoRuntimeInitializedByCaller) =>
        (ret.val = EnvProbe.val /\ ret.source \in {"env", "none"})

\* C8: whatever a probe raises, get_rank does not raise: it returns a
\* runtime's rank, the environment-variable result or None.
C8_GetRankNeverRaises ==
    ret.op = "get_rank" => ret.kind = "return"

\* base_seed + rank after seed_distributed's wraparound
Wrapped(sum) == IF sum > max_seed THEN sum % max_seed ELSE sum

\* C5: seed_distributed derives its result from the rank passed whenever one
\* is passed, rank 0 included, whatever the rank variables and runtimes say;
\* otherwise from get_rank()'s result when that is not None; otherwise from 0.
\* With no rank source the result is the seed, and with RANK=R and no runtime
\* resolving a rank it is seed + R.
C5_RankSelection ==
    Returned("seed_distributed") =>
        /\ ret.rank # None <=> ret.source = "arg"
        /\ ret.rank # None => ret.val = PyInt(Wrapped(ret.seed.val + ret.rank.val))
        /\ ret.source = "torch" => ret.val = PyInt(Wrapped(ret.seed.val + dist.rank))
        /\ ret.source = "horovod" => ret.val = PyInt(Wrapped(ret.seed.val + hvd.rank))
        /\ ret.source = "deepspeed" => ret.val = PyInt(Wrapped(ret.seed.val + ds.rank))
        /\ ret.source = "env" =>
              /\ EnvProbe.val # None
              /\ ret.val = PyInt(Wrapped(ret.seed.val + EnvProbe.val.val))
        /\ ret.source = "default" => (EnvProbe.val = None /\ ret.val = ret.seed)
        /\ (ret.rank = None /\ installed = {} /\ ~Qualifies(1) /\ ~Qualifies(2))
              => ret.val = ret.seed
        /\ (ret.rank = None /\ installed = {} /\ Qualifies(1))
              => ret.val = PyInt(Wrapped(ret.seed.val + IntOf(environ["RANK"])))

\* rank 0 was passed while RANK held 2 and Horovod was installed: the result
\* is the seed
C5_Witness ==
    /\ Returned("seed_distributed")
    /\ ret.rank = PyInt(0)
    /\ environ["RANK"] = <<" ", "2">>
    /\ "horovod" \in installed
    /\ ret.val = ret.seed

\* the two most recent calls invoked the same closure
SameClosureTwice ==
    /\ ret.op = "worker_init" /\ prev.op = "worker_init"
    /\ ret.cb = prev.cb

\* C9: an invocation cb(w) applies exactly the captured base_seed + w, without
\* wraparound, whatever was invoked before; so cb(w) repeated applies the same
\* seed and cb(w1), cb(w2) with w1 # w2 apply different seeds.
C9_WorkerSeedFromClosureOnly ==
    ret.op = "worker_init" =>
        /\ py_rng = PyInt(callbacks[ret.cb].val + ret.rank.val)
        /\ "numpy" \in ret.applied => np_rng = py_rng
        /\ "torch" \in ret.applied => torch_rng = py_rng
        /\ ret.used = py_rng
        /\ SameClosureTwice => (ret.rank = prev.rank <=> ret.used = prev.used)

\* the first closure was invoked with worker 1 after the second closure, which
\* captured another base seed, had been invoked
C9_Witness ==
    /\ ret.op = "worker_init" /\ prev.op = "worker_init"
    /\ ret.cb = 1 /\ prev.cb = 2
    /\ callbacks[1] # callbacks[2]
    /\ ret.rank = PyInt(1)
    /\ py_rng = PyInt(callbacks[1].val + 1)

\* C10: an invocation of the callback returns normally having seeded the
\* general-purpose RNG and every present subsystem with base_seed + worker_id,
\* also when that sum exceeds max_seed.
C10_WorkerInitSeedsEveryone ==
    ret.op = "worker_init" =>
        /\ ret.kind = "return"
        /\ py_rng = ret.used
        /\ "numpy" \in installed => np_rng = ret.used
        /\ "torch" \in installed => torch_rng = ret.used

\* the operations that accept a seed
SeedOps ==
    {"seed_python", "seed_numpy", "seed_torch", "seed_tensorflow", "seed_jax",
     "get_sklearn_random_state", "seed_sklearn_estimator", "seed_distributed",
     "seed_everything", "get_worker_init_fn", "worker_init"}

\* C11: every operation that accepts a seed, given a seed validate_seed
\* rejects, raises TypeError or ValueError, in every environment, the
\* environments without the operation's subsystem included
C11_InvalidSeedAlwaysSurfaced ==
    (ret.op \in SeedOps /\ validate_seed(ret.seed) # "ok")
        => (ret.kind = "raise" /\ ret.exc \in {"TypeError", "ValueError"})

\* the process-global RNG r is as seeding it with s leaves it
FreshlySeeded(r, s) == RngSeed(r) = PyInt(s.val) /\ draws[r] = 0

\* C12: right after seed_python, seed_numpy, seed_torch, seed_tensorflow or
\* seed_everything returned for a seed s, every present RNG the call seeds is
\* in the state s determines, whatever was seeded and drawn before
C12_ReseedingResetsState ==
    /\ Returned("seed_python") => FreshlySeeded("python", ret.seed)
    /\ (Returned("seed_numpy") /\ NUMPY_AVAILABLE)
           => FreshlySeeded("numpy", ret.seed)
    /\ (Returned("seed_torch") /\ TORCH_AVAILABLE)
           => /\ FreshlySeeded("torch", ret.seed)
              /\ CudaAvailable => sys.cuda_rng = PyInt(ret.seed.val)
    /\ (Returned("seed_tensorflow") /\ TENSORFLOW_AVAILABLE)
           => FreshlySeeded("tensorflow", ret.seed)
    /\ Returned("seed_everything")
           => \A r \in Rngs :
                  (r = "python" \/ r \in installed) => FreshlySeeded(r, ret.seed)

\* NumPy's RNG was seeded with another seed and drawn from, and then seeded
C12_Witness ==
    /\ Returned("seed_numpy")
    /\ NUMPY_AVAILABLE
    /\ prev.op = "draw"
    /\ prev.source = "numpy"
    /\ prev.seed \notin {None, ret.seed}
    /\ FreshlySeeded("numpy", ret.seed)

\* the keys every result of seed_everything has
FixedKeys ==
    {"seed", "deterministic", "python", "numpy", "torch", "tensorflow", "jax"}

\* the key k is in the result exactly when the flag under f is True
KeyIffFlag(d, k, f) == (k \in DOMAIN d) <=> (d[f] = PyBool(TRUE))

\* C13: the record seed_everything returns has 'seed' the input seed,
\* 'deterministic' the input flag, 'python' True, a flag per optional
\* subsystem that is True iff it is installed, and 'numpy_rng', 'jax_key' and
\* 'torch_cuda' exactly when the flag of numpy, jax and torch is True
C13_ResultRecord ==
    Returned("seed_everything") =>
        LET d == ret.val.items
        IN /\ ret.val.kind = "dict"
           /\ FixedKeys \subseteq DOMAIN d
           /\ d["seed"] = ret.seed
           /\ d["deterministic"] = PyBool(ret.deterministic)
           /\ d["python"] = PyBool(TRUE)
           /\ \A m \in {"numpy", "torch", "tensorflow", "jax"} :
                  d[m] = PyBool(m \in installed)
           /\ KeyIffFlag(d, "numpy_rng", "numpy")
           /\ KeyIffFlag(d, "jax_key", "jax")
           /\ KeyIffFlag(d, "torch_cuda", "torch")

\* a result with NumPy present and PyTorch and JAX absent
C13_Witness ==
    /\ Returned("seed_everything")
    /\ installed = {"numpy", "tensorflow"}
    /\ DOMAIN ret.val.items = FixedKeys \cup {"numpy_rng"}
    /\ ret.val.items["numpy"] = PyBool(TRUE)
    /\ ret.val.items["torch"] = PyBool(FALSE)

Target(op) ==
    CASE op = "seed_numpy" -> "numpy"
      [] op = "seed_torch" -> "torch"
      [] op = "seed_tensorflow" -> "tensorflow"
      [] op = "seed_jax" -> "jax"
      [] op = "get_sklearn_random_state" -> "numpy"

OptionalSeeders ==
    {"seed_numpy", "seed_torch", "seed_tensorflow", "seed_jax",
     "get_sklearn_random_state"}

\* C15: a call of seed_numpy, seed_torch, seed_tensorflow, seed_jax or
\* get_sklearn_random_state whose subsystem is not installed returns None and
\* writes nothing: no RNG, no determinism switch, no environment variable
C15_AbsentSubsystemNoEffect ==
    [][(ret'.op \in OptionalSeeders /\ Target(ret'.op) \notin installed)
           => /\ ret'.kind = "return"
              /\ ret'.val = None
              /\ UNCHANGED <<installed, environ, dist, hvd, ds, py_rng, np_rng,
                             torch_rng, callbacks, sys, draws, estimator, fan>>]_vars

\* seed_tensorflow, asked for determinism without TensorFlow, returned None
\* and the toggles are still unset in a process seeded before
C15_Witness ==
    /\ Returned("seed_tensorflow")
    /\ ~TENSORFLOW_AVAILABLE
    /\ ret.deterministic
    /\ validate_seed(ret.seed) = "ok"
    /\ ret.val = None
    /\ py_rng # None
    /\ environ["TF_DETERMINISTIC_OPS"] = Absent
    /\ environ["TF_CUDNN_DETERMINISTIC"] = Absent
    /\ sys.tf_rng = None

\* C16: a seed_distributed call that returns leaves NCCL_DEBUG as the caller
\* set it, and at 'WARN' if it was unset
C16_NcclDebugFirstWriterWins ==
    [][(ret'.op = "seed_distributed" /\ ret'.kind = "return")
           => environ'["NCCL_DEBUG"] =
                  IF environ["NCCL_DEBUG"] = Absent THEN <<"W", "A", "R", "N">>
                  ELSE environ["NCCL_DEBUG"]]_vars

\* seed_distributed returned in a process whose caller had set NCCL_DEBUG
C16_Witness ==
    /\ Returned("seed_distributed")
    /\ environ["NCCL_DEBUG"] \in NcclStrings

Toggles ==
    {"PYTHONHASHSEED", "TF_DETERMINISTIC_OPS", "TF_CUDNN_DETERMINISTIC",
     "NCCL_DEBUG"}

\* a step removes no toggle
TogglesKept == \A t \in Toggles : environ[t] # Absent => environ'[t] # Absent

\* a step that changes a toggle is a call of the toggle's owner
TogglesWrittenByOwner ==
    \A t \in Toggles :
        environ'[t] # environ[t] =>
            CASE t = "PYTHONHASHSEED" ->
                     ret'.op \in {"seed_python", "seed_everything"}
              [] t \in {"TF_DETERMINISTIC_OPS", "TF_CUDNN_DETERMINISTIC"} ->
                     /\ ret'.op \in {"seed_tensorflow", "seed_everything"}
                     /\ ret'.deterministic
              [] t = "NCCL_DEBUG" -> ret'.op = "seed_distributed"

\* after seed_python or seed_everything applied a seed, PYTHONHASHSEED is the
\* seed in decimal
HashSeedIsDecimal ==
    (ret'.op \in {"seed_python", "seed_everything"} /\ ret'.kind = "return")
        => environ'["PYTHONHASHSEED"] = Decimal(ret'.seed.val)

\* C17: no library operation removes an environment toggle, each toggle is
\* written only by its owner (PYTHONHASHSEED by seed_python, alone or within
\* seed_everything; the TensorFlow toggles by seed_tensorflow with
\* deterministic=True; NCCL_DEBUG by seed_distributed), and PYTHONHASHSEED is
\* the decimal string of the seed applied last
C17_TogglesOwnedAndKept ==
    [][TogglesKept /\ TogglesWrittenByOwner /\ HashSeedIsDecimal]_vars

\* set_params is absent, or raised ValueError or TypeError
SetParamsGaveWay(e) ==
    ~e.has_set_params \/ e.set_params \in {"ValueError", "TypeError"}

\* C18: for a valid seed, seed_sklearn_estimator sets random_state through
\* set_params when the object has it and it succeeds, and then attempts no
\* assignment; it attempts the assignment exactly when set_params is absent
\* or raised ValueError/TypeError and the object has a random_state
\* attribute; it leaves an object with neither unchanged; and what it returns
\* is the object it was given
C18_StrategyOrder ==
    [][(ret'.op = "seed_sklearn_estimator" /\ validate_seed(ret'.seed) = "ok")
           => /\ (estimator.has_set_params /\ estimator.set_params = "ok")
                     => /\ ret'.applied = {"set_params"}
                        /\ estimator'.random_state = ret'.seed
              /\ ("assign" \in ret'.applied)
                     <=> (SetParamsGaveWay(estimator) /\ estimator.has_field)
              /\ (~estimator.has_set_params /\ ~estimator.has_field)
                     => (estimator' = estimator /\ ret'.applied = {})
              /\ ret'.kind = "return"
                     => (ret'.val = Object(estimator.id)
                         /\ estimator'.id = estimator.id)]_vars

\* an estimator whose set_params rejected random_state got it by assignment
C18_Witness ==
    /\ Returned("seed_sklearn_estimator")
    /\ validate_seed(ret.seed) = "ok"
    /\ estimator.has_set_params
    /\ estimator.set_params = "ValueError"
    /\ ret.applied = {"set_params", "assign"}
    /\ estimator.random_state = ret.seed
    /\ ret.val = Object(estimator.id)

\* C19: seed_sklearn_estimator, given a valid seed, returns, whatever
\* set_params or the assignment of random_state raises
C19_EstimatorNeverFails ==
    (ret.op = "seed_sklearn_estimator" /\ validate_seed(ret.seed) = "ok")
        => ret.kind = "return"

\* the five calls of a seed_everything call have all been made
FanDone == fan.todo = {} /\ fan.start # <<>>

\* what seed_everything, making the calls in the order of the code, does to
\* the process the calls began in
InCodeOrder == SeedEverything(fan.start, fan.seed, fan.deterministic, NoEnableFault)

C21_WorkerInitFnSeedsWorker ==
    Returned("worker_init_fn") =>
        LET s == PyInt(ret.seed.val + ret.rank.val)
        IN /\ py_rng = s
           /\ (NUMPY_AVAILABLE /\ NumpySeedAccepts(s.val)) => np_rng = s
           /\ TORCH_AVAILABLE => torch_rng = s

ValidatingOps ==
    {"seed_everything", "seed_python", "seed_distributed", "seed_sklearn_estimator"}

\* C22: a call of seed_everything, seed_python, seed_distributed or
\* seed_sklearn_estimator that raises for an invalid seed has changed
\* nothing: no RNG, no determinism switch, no environment variable, no
\* runtime and no estimator field
C22_ValidationFailureAtomic ==
    [][(/\ ret'.op \in ValidatingOps
        /\ validate_seed(ret'.seed) # "ok"
        /\ ret'.kind = "raise")
           => UNCHANGED <<installed, environ, dist, hvd, ds, py_rng, np_rng,
                          torch_rng, callbacks, sys, draws, estimator, fan>>]_vars

\* seed_everything raised for an invalid seed in a process seeded before and
\* holding a seeded estimator
C22_Witness ==
    /\ ret.op = "seed_everything"
    /\ ret.kind = "raise"
    /\ validate_seed(ret.seed) # "ok"
    /\ py_rng = PyInt(1)
    /\ environ["PYTHONHASHSEED"] = <<"1">>
    /\ environ["NCCL_DEBUG"] # Absent
    /\ estimator.random_state = PyInt(1)

\* two calls with one base seed and ranks within one window of max_seed ranks
InWindow ==
    /\ BothReturned
    /\ ret.used.val <= max_seed - 1
    /\ prev.used.val <= max_seed - 1

\* the sum of the call c went above max_seed and was wrapped
WrappedCall(c) == c.seed.val + c.used.val > max_seed

\* C23: with one valid base seed, two distinct ranks in [0, max_seed - 1] get
\* different seeds, a wrapped result lying below the base seed and an
\* unwrapped one from the base seed up; and two distinct ranks that get the
\* same seed differ by at least max_seed
C23_WindowCollisionFree ==
    /\ (InWindow /\ ret.used # prev.used) => ret.val # prev.val
    /\ (InWindow /\ WrappedCall(prev) /\ ~WrappedCall(ret))
           => (prev.val.val < ret.seed.val /\ ret.seed.val <= ret.val.val)
    /\ (BothReturned /\ ret.used # prev.used /\ ret.val = prev.val)
           => Distance(ret.used.val, prev.used.val) >= max_seed

\* the two ends of the window for the largest base seed: the last rank
\* wrapped, rank 0 did not
C23_Witness ==
    /\ InWindow
    /\ ret.seed.val = max_seed
    /\ prev.used.val = max_seed - 1
    /\ ret.used.val = 0
    /\ WrappedCall(prev)
    /\ ~WrappedCall(ret)
    /\ ret.val # prev.val

\* PyTorch is configured for deterministic operation
TorchDeterministic == sys.deterministic_algorithms /\ sys.cudnn_deterministic

\* TensorFlow's two toggles are set
TensorflowDeterministic ==
    /\ environ["TF_DETERMINISTIC_OPS"] # Absent
    /\ environ["TF_CUDNN_DETERMINISTIC"] # Absent

=============================================================================
